---- MODULE Spec2Model ----
(***************************************************************************)
(* Spike-train buffers of bmtk/utils/reports/spike_trains/                 *)
(* spike_train_buffer.py: the filter builder, the memory buffer            *)
(* (STMemoryBuffer), the file buffer (STCSVBuffer) and the distributed     *)
(* file buffer (STMPIBuffer) with its k-way merge reader.                  *)
(*                                                                         *)
(* Timestamps are whole ticks; a line of a cache file is the tuple of its  *)
(* three space-separated fields.  Population labels hold no delimiter.     *)
(* A read is consumed by its caller before the next call on a buffer.      *)
(***************************************************************************)
EXTENDS Integers, Sequences, FiniteSets, Bags, TLC

(* ------------------------------ bounds -------------------------------- *)
NWorkers == 2

MaxSpikes == 2

MaxTime == 2

MaxNode == 1

MaxLen == 2

(* ----------------------------- constants ------------------------------ *)
None == "<None>"

pop_na == "<pop_na>"

Ranks == 0 .. (NWorkers - 1)

Times == 1 .. MaxTime

Nodes == 0 .. MaxNode

\* the population argument of add_spike / add_spikes
PopArgs == {None, "A"}

\* the default_population argument of the constructors
DefaultArgs == {None, "B"}

Labels == {pop_na, "A", "B"}

SortOrders == {"none", "by_time", "by_id"}

\* Python's ordering of the labels as strings ('<' sorts before 'A')
StrOrd(s) == CASE s = pop_na -> 0 [] s = "A" -> 1 [] s = "B" -> 2 [] OTHER -> 3

\* Python's `a or b` on an optional string
PyOr(a, b) == IF a \in {None, ""} THEN b ELSE a

(* --------------------------- dictionaries ----------------------------- *)
EmptyDict == [k \in {} |-> 0]

DictGet(d, k, dflt) == IF k \in DOMAIN d THEN d[k] ELSE dflt

DictInc(d, k) ==
    [x \in (DOMAIN d) \cup {k} |-> IF x = k THEN DictGet(d, k, 0) + 1 ELSE d[x]]

RECURSIVE SumOver(_, _)
SumOver(d, ks) ==
    IF ks = {} THEN 0
    ELSE LET k == CHOOSE x \in ks : TRUE IN d[k] + SumOver(d, ks \ {k})

DictSum(d) == SumOver(d, DOMAIN d)

(* ------------------------------ sorting ------------------------------- *)
\* numpy's argsort and pandas' sort_values (both quicksort, which is an
\* insertion sort on short inputs): ties keep their order.
RECURSIVE InsertIdx(_, _, _)
InsertIdx(s, i, key) ==
    IF s = <<>> THEN <<i>>
    ELSE IF key[i] < key[Head(s)] THEN <<i>> \o s
    ELSE <<Head(s)>> \o InsertIdx(Tail(s), i, key)

RECURSIVE ArgsortPrefix(_, _)
ArgsortPrefix(key, n) ==
    IF n = 0 THEN <<>> ELSE InsertIdx(ArgsortPrefix(key, n - 1), n, key)

argsort(key) == ArgsortPrefix(key, Len(key))

range(n) == [i \in 1 .. n |-> i]

(* --------------------------- Filter Builder --------------------------- *)
\* an optional populations argument: None, one label, or a list of labels
NonePops == [tag |-> "None", v |-> {}]

ScalarPops(l) == [tag |-> "scalar", v |-> {l}]

ListPops(ls) == [tag |-> "list", v |-> ls]

\* an optional time_window argument: None or (lo, hi)
NoneWindow == [tag |-> "None", lo |-> 0, hi |-> 0]

Window(lo, hi) == [tag |-> "window", lo |-> lo, hi |-> hi]

\* the arguments the reads of the buffers are called with
PopulationsArgs == {NonePops, ScalarPops("A")}

TimeWindowArgs ==
    {NoneWindow, Window(1, 1)}

\* [populations] if np.isscalar(populations) else populations
AsList(populations) == populations.v

\* a window that leaves its upper end out
_spikes_filter1_open_end(p, t, time_window, populations) ==
    p \in populations /\ time_window[1] <= t /\ t < time_window[2]

_spikes_filter1(p, t, time_window, populations) ==
    p \in populations /\ time_window[1] <= t /\ t <= time_window[2]

_spikes_filter2(p, t, populations) == p \in populations

_spikes_filter3(p, t, time_window) ==
    time_window[1] <= t /\ t <= time_window[2]

\* the closure _create_filter returns: the function and the arguments
\* functools.partial binds to it
_create_filter(populations, time_window) ==
    IF populations.tag = "None" /\ time_window.tag = "None"
    THEN [fn |-> "lambda", populations |-> {}, time_window |-> <<0, 0>>]
    ELSE IF populations.tag = "None"
    THEN [fn |-> "_spikes_filter3", populations |-> {},
          time_window |-> <<time_window.lo, time_window.hi>>]
    ELSE LET pops == AsList(populations)
         IN IF time_window.tag = "None"
            THEN [fn |-> "_spikes_filter2", populations |-> pops,
                  time_window |-> <<0, 0>>]
            ELSE [fn |-> "_spikes_filter1", populations |-> pops,
                  time_window |-> <<time_window.lo, time_window.hi>>]

\* filter(p, t): a call of the closure
ApplyFilter(f, p, t) ==
    CASE f.fn = "lambda" -> TRUE
      [] f.fn = "_spikes_filter3" -> _spikes_filter3(p, t, f.time_window)
      [] f.fn = "_spikes_filter2" -> _spikes_filter2(p, t, f.populations)
      [] f.fn = "_spikes_filter1" ->
            _spikes_filter1(p, t, f.time_window, f.populations)

(* ------------------------------- state -------------------------------- *)
VARIABLES
    backend,             \* "memory" (STMemoryBuffer), "csv" (STCSVBuffer), "mpi" (STMPIBuffer)
    default_population,  \* self._default_population
    mpi4py,              \* whether `from mpi4py import MPI` succeeded
    cache_dir_exists,    \* os.path.exists(self._cache_dir)
    pc,                  \* per instance: where its constructor stands
    init_error,          \* per instance: the exception that ended its constructor
    arrived,             \* the ranks that have called barrier()
    mkdirs_calls,        \* the ranks that have called os.mkdirs
    node_ids,            \* self._node_ids   (memory buffer)
    timestamps,          \* self._timestamps (memory buffer)
    populations,         \* self._populations (memory buffer)
    pop_counts,          \* per instance: self._pop_counts
    nspikes,             \* per instance: self._nspikes
    files,               \* per rank: the cache file on disk
    buffer_handle,       \* per instance: self._buffer_handle
    rd,                  \* the latest spikes() call
    out,                 \* the records that call has yielded
    itr,                 \* the frame of the _sorted_itr generator
    ret,                 \* the outcome of the latest other call
    calls,               \* history: the bag of add_spike calls that returned
    prev                 \* history: the latest read consumed to its end

vars == <<backend, default_population, mpi4py, cache_dir_exists, pc, init_error,
          arrived, mkdirs_calls, node_ids, timestamps, populations, pop_counts,
          nspikes, files, buffer_handle, rd, out, itr, ret, calls, prev>>

config == <<backend, default_population, mpi4py>>

ctor == <<cache_dir_exists, pc, init_error, arrived, mkdirs_calls>>

\* the module-level MPI_size: comm.Get_size(), or 1 without mpi4py
MPI_size == IF mpi4py THEN NWorkers ELSE 1

\* the buffer instances: one per worker for the distributed buffer
Inst(b) == IF b = "mpi" THEN Ranks ELSE {0}

NoFile == [exists |-> FALSE, lines |-> <<>>]

NoHandle == [closed |-> TRUE, buf |-> <<>>]

NoRd ==
    [status |-> "none", rank |-> 0, sort_order |-> "none",
     populations |-> NonePops, time_window |-> NoneWindow]

NoItr ==
    [sort_col |-> 0, filter |-> _create_filter(NonePops, NoneWindow),
     h |-> {}, nones |-> {}, pos |-> [r \in Ranks |-> 0], opened |-> {},
     yielded |-> FALSE]

\* no read has been consumed to its end since the latest other call
NoPrev ==
    [valid |-> FALSE, rd |-> NoRd, out |-> <<>>, calls |-> EmptyBag,
     buffer_handle |-> [r \in Ranks |-> NoHandle]]

NoRet == [op |-> "none", rank |-> 0, arg |-> None, status |-> "ok", val |-> <<>>]

Returned(op, r, arg, val) ==
    [op |-> op, rank |-> r, arg |-> arg, status |-> "ok", val |-> val]

Raised(op, r, arg, exc) ==
    [op |-> op, rank |-> r, arg |-> arg, status |-> exc, val |-> <<>>]

\* no call is under way: the caller has taken the outcome of its latest call
Idle == rd.status = "none" /\ ret.op = "none"

Ready(r) == pc[r] = "ready"

ClearRead == rd' = NoRd /\ out' = <<>> /\ itr' = NoItr

(* ----------------------------- add_spike ------------------------------ *)
\* the fields add_spike touches, as one value it maps to the next
Cur ==
    [node_ids |-> node_ids, timestamps |-> timestamps, populations |-> populations,
     pop_counts |-> pop_counts, nspikes |-> nspikes, buffer_handle |-> buffer_handle,
     calls |-> calls, err |-> ""]

Call(r, node_id, timestamp, population) ==
    SetToBag({<<r, node_id, timestamp, population>>})

\* '{} {} {}\n'.format(timestamp, population, node_id)
FormatLine(timestamp, population, node_id) == <<timestamp, population, node_id>>

\* STMemoryBuffer.add_spike
STMemoryBuffer_add_spike(B, r, node_id, timestamp, population) ==
    LET pop == PyOr(population, default_population)
    IN [B EXCEPT !.node_ids = Append(@, node_id),
                 !.timestamps = Append(@, timestamp),
                 !.populations = Append(@, pop),
                 !.pop_counts[r] = DictInc(@, pop),
                 !.calls = @ (+) Call(r, node_id, timestamp, population)]

\* STCSVBuffer.add_spike (STMPIBuffer inherits it): a write to a closed
\* handle raises ValueError before anything is counted
STCSVBuffer_add_spike(B, r, node_id, timestamp, population) ==
    LET pop == PyOr(population, pop_na)
    IN IF B.buffer_handle[r].closed THEN [B EXCEPT !.err = "ValueError"]
       ELSE [B EXCEPT !.buffer_handle[r].buf =
                          Append(@, FormatLine(timestamp, pop, node_id)),
                      !.nspikes[r] = @ + 1,
                      !.pop_counts[r] = DictInc(@, pop),
                      !.calls = @ (+) Call(r, node_id, timestamp, population)]

add_spike(B, r, node_id, timestamp, population) ==
    IF backend = "memory"
    THEN STMemoryBuffer_add_spike(B, r, node_id, timestamp, population)
    ELSE STCSVBuffer_add_spike(B, r, node_id, timestamp, population)

\* zip(node_ids, timestamps)
zip(a, b) ==
    LET n == IF Len(a) < Len(b) THEN Len(a) ELSE Len(b)
    IN [i \in 1 .. n |-> <<a[i], b[i]>>]

\* the loop of add_spikes over the (node_id, timestamp) pairs; an exception
\* of add_spike ends it
RECURSIVE AddAll(_, _, _, _)
AddAll(B, r, pairs, population) ==
    IF pairs = <<>> \/ B.err # "" THEN B
    ELSE AddAll(add_spike(B, r, Head(pairs)[1], Head(pairs)[2], population),
                r, Tail(pairs), population)

\* add_spikes: ids is [scalar |-> TRUE, v |-> <<id>>] for a scalar node_ids
\* (np.isscalar), which both classes pair with every timestamp
add_spikes(B, r, ids, tss, population) ==
    LET nids == IF ids.scalar THEN [i \in 1 .. Len(tss) |-> ids.v[1]] ELSE ids.v
    IN AddAll(B, r, zip(nids, tss), population)

Commit(B, op, r) ==
    /\ node_ids' = B.node_ids
    /\ timestamps' = B.timestamps
    /\ populations' = B.populations
    /\ pop_counts' = B.pop_counts
    /\ nspikes' = B.nspikes
    /\ buffer_handle' = B.buffer_handle
    /\ calls' = B.calls
    /\ ret' = IF B.err = "" THEN NoRet ELSE Raised(op, r, None, B.err)

AddSpike(r, node_id, timestamp, population) ==
    /\ Ready(r) /\ Idle
    /\ BagCardinality(calls) < MaxSpikes
    /\ Commit(add_spike(Cur, r, node_id, timestamp, population), "add_spike", r)
    /\ ClearRead
    /\ UNCHANGED <<config, prev, ctor, files>>

NodeIdsArgs ==
    {[scalar |-> TRUE, v |-> <<n>>] : n \in Nodes}
    \cup {[scalar |-> FALSE, v |-> v] : v \in [1 .. MaxLen -> Nodes]}

TimestampsArgs == [1 .. MaxLen -> Times]

AddSpikes(r, ids, tss, population) ==
    /\ Ready(r) /\ Idle
    /\ BagCardinality(calls) + Len(tss) <= MaxSpikes
    /\ Commit(add_spikes(Cur, r, ids, tss, population), "add_spikes", r)
    /\ ClearRead
    /\ UNCHANGED <<config, prev, ctor, files>>

(* --------------------------- flush and close -------------------------- *)
\* file.flush(): the buffered lines reach the file, after those already there
FlushHandle(f, hd) == [f EXCEPT !.lines = @ \o hd.buf]

\* STMemoryBuffer.flush (pass) and STCSVBuffer.flush
Flush(r) ==
    /\ Ready(r) /\ Idle
    /\ IF backend = "memory" THEN UNCHANGED <<files, buffer_handle>> /\ ret' = NoRet
       ELSE IF buffer_handle[r].closed
       THEN UNCHANGED <<files, buffer_handle>>
            /\ ret' = Raised("flush", r, None, "ValueError")
       ELSE /\ files' = [files EXCEPT ![r] = FlushHandle(@, buffer_handle[r])]
            /\ buffer_handle' = [buffer_handle EXCEPT ![r].buf = <<>>]
            /\ ret' = NoRet
    /\ ClearRead
    /\ UNCHANGED <<config, prev, ctor, node_ids, timestamps, populations, pop_counts,
                   nspikes, calls>>

\* a close that leaves the file behind
STCSVBuffer_close_keeps_file(f, hd) ==
    [file |-> IF hd.closed THEN f ELSE FlushHandle(f, hd), handle |-> NoHandle]

\* STCSVBuffer.close: file.close() flushes an open handle and is a no-op on
\* a closed one; the file is removed if it is there
STCSVBuffer_close(f, hd) ==
    LET flushed == IF hd.closed THEN f ELSE FlushHandle(f, hd)
    IN [file |-> IF flushed.exists THEN NoFile ELSE flushed, handle |-> NoHandle]

\* ret.arg keeps the state of the handle the call found
Close(r) ==
    /\ Ready(r) /\ Idle
    /\ backend # "memory"
    /\ LET c == STCSVBuffer_close(files[r], buffer_handle[r])
       IN /\ buffer_handle' = [buffer_handle EXCEPT ![r] = c.handle]
          /\ files' = [files EXCEPT ![r] = c.file]
    /\ ret' = Returned("close", r,
                       IF buffer_handle[r].closed THEN "closed" ELSE "open", <<>>)
    /\ ClearRead
    /\ UNCHANGED <<config, prev, ctor, node_ids, timestamps, populations, pop_counts,
                   nspikes, calls>>

(* ------------------------------ queries ------------------------------- *)
RECURSIVE SeqMin(_)
SeqMin(s) ==
    IF Len(s) = 1 THEN s[1]
    ELSE LET m == SeqMin(Tail(s)) IN IF s[1] < m THEN s[1] ELSE m

RECURSIVE SeqMax(_)
SeqMax(s) ==
    IF Len(s) = 1 THEN s[1]
    ELSE LET m == SeqMax(Tail(s)) IN IF s[1] > m THEN s[1] ELSE m

\* STMemoryBuffer.time_range: np.min of an empty list raises ValueError
STMemoryBuffer_time_range(r) ==
    IF timestamps = <<>> THEN Raised("time_range", r, None, "ValueError")
    ELSE Returned("time_range", r, None, <<SeqMin(timestamps), SeqMax(timestamps)>>)

\* STCSVBuffer.time_range: the class has no _timestamps attribute
STCSVBuffer_time_range(r) == Raised("time_range", r, None, "AttributeError")

TimeRange(r) ==
    /\ Ready(r) /\ Idle
    /\ ret' = IF backend = "memory" THEN STMemoryBuffer_time_range(r)
              ELSE STCSVBuffer_time_range(r)
    /\ ClearRead
    /\ UNCHANGED <<config, prev, ctor, node_ids, timestamps, populations, pop_counts,
                   nspikes, files, buffer_handle, calls>>

\* STMemoryBuffer.n_spikes and STCSVBuffer.n_spikes
n_spikes(r, population) == DictGet(pop_counts[r], population, 0)

\* the population argument of n_spikes
QueryArgs == {None} \cup Labels

\* the csv.reader loop of STMPIBuffer._gather over one file
RECURSIVE GatherRows(_, _)
GatherRows(d, lines) ==
    IF lines = <<>> THEN d ELSE GatherRows(DictInc(d, Head(lines)[2]), Tail(lines))

\* STMPIBuffer._gather from self._pop_counts = d on: the files of the ranks
\* rs are scanned in turn; an open of a missing file raises and leaves the
\* counts of the files before it
RECURSIVE _gather(_, _, _)
_gather(fs, rs, d) ==
    IF rs = <<>> THEN [counts |-> d, err |-> ""]
    ELSE IF ~fs[Head(rs)].exists THEN [counts |-> d, err |-> "IOError"]
    ELSE _gather(fs, Tail(rs), GatherRows(d, fs[Head(rs)].lines))

\* the ranks range(MPI_size) that STMPIBuffer._all_cached_files names
CachedRanks == [i \in 1 .. MPI_size |-> i - 1]

\* STMemoryBuffer.n_spikes and STCSVBuffer.n_spikes
NSpikes(r, population) ==
    /\ Ready(r) /\ Idle
    /\ backend # "mpi"
    /\ ret' = Returned("n_spikes", r, population, <<n_spikes(r, population)>>)
    /\ ClearRead
    /\ UNCHANGED <<config, prev, ctor, node_ids, timestamps, populations, pop_counts,
                   nspikes, files, buffer_handle, calls>>

\* the populations property of STMemoryBuffer and STCSVBuffer:
\* list(self._pop_counts.keys()); ret.val holds the set of the keys
Populations(r) ==
    /\ Ready(r) /\ Idle
    /\ backend # "mpi"
    /\ ret' = Returned("populations", r, None, <<DOMAIN pop_counts[r]>>)
    /\ ClearRead
    /\ UNCHANGED <<config, prev, ctor, node_ids, timestamps, populations, pop_counts,
                   nspikes, files, buffer_handle, calls>>

\* STMPIBuffer.n_spikes: _gather, then self._pop_counts.get(population, 0)
MpiNSpikes(r, population) ==
    /\ Ready(r) /\ Idle
    /\ backend = "mpi"
    /\ LET g == _gather(files, CachedRanks, EmptyDict)
       IN /\ pop_counts' = [pop_counts EXCEPT ![r] = g.counts]
          /\ ret' = IF g.err # "" THEN Raised("n_spikes", r, population, g.err)
                    ELSE Returned("n_spikes", r, population,
                                  <<DictGet(g.counts, population, 0)>>)
    /\ ClearRead
    /\ UNCHANGED <<config, prev, ctor, node_ids, timestamps, populations,
                   nspikes, files, buffer_handle, calls>>

\* the populations property of STMPIBuffer: _gather, then the keys
MpiPopulations(r) ==
    /\ Ready(r) /\ Idle
    /\ backend = "mpi"
    /\ LET g == _gather(files, CachedRanks, EmptyDict)
       IN /\ pop_counts' = [pop_counts EXCEPT ![r] = g.counts]
          /\ ret' = IF g.err # "" THEN Raised("populations", r, None, g.err)
                    ELSE Returned("populations", r, None, <<DOMAIN g.counts>>)
    /\ ClearRead
    /\ UNCHANGED <<config, prev, ctor, node_ids, timestamps, populations,
                   nspikes, files, buffer_handle, calls>>

(* ------------------------- spikes: memory, file ----------------------- *)
\* how a generator that ends in `raise StopIteration` ends for its consumer:
\* exhausted, or (PEP 479, Python 3.7 on) with RuntimeError
EndOfGenerator == {"done", "RuntimeError"}

\* the index order STMemoryBuffer.spikes scans in
sort_indx(sort_order) ==
    IF sort_order = "by_time" THEN argsort(timestamps)
    ELSE IF sort_order = "by_time" THEN argsort(node_ids)
    ELSE range(Len(timestamps))

\* the loop of STMemoryBuffer.spikes over sort_indx
RECURSIVE ScanIndices(_, _)
ScanIndices(idx, f) ==
    IF idx = <<>> THEN <<>>
    ELSE LET i == Head(idx)
             t == timestamps[i]
             p == populations[i]
         IN (IF ApplyFilter(f, p, t) THEN << <<t, p, node_ids[i]>> >> ELSE <<>>)
            \o ScanIndices(Tail(idx), f)

STMemoryBuffer_spikes(pops, time_window, sort_order) ==
    ScanIndices(sort_indx(sort_order), _create_filter(pops, time_window))

\* the csv.reader loop of STCSVBuffer.spikes and of _unsorted_itr:
\* t = float(row[0]), p = row[1], int(row[2])
RECURSIVE ScanRows(_, _)
ScanRows(lines, f) ==
    IF lines = <<>> THEN <<>>
    ELSE LET row == Head(lines)
             t == row[1]
             p == row[2]
         IN (IF ApplyFilter(f, p, t) THEN << <<t, p, row[3]>> >> ELSE <<>>)
            \o ScanRows(Tail(lines), f)

\* DataFrame.sort_values(by=sort_col), col the place of the column in a line:
\* the default kind is quicksort, which is not stable, so lines equal in the
\* column come out in an order the call does not fix. The set of the orders.
sort_values(lines, col) ==
    LET n == Len(lines)
        perms == {q \in [1 .. n -> 1 .. n] : \A i, j \in 1 .. n : i # j => q[i] # q[j]}
    IN {[i \in 1 .. n |-> lines[q[i]]] :
           q \in {x \in perms : \A i \in 1 .. (n - 1) :
                                  lines[x[i]][col] <= lines[x[i + 1]][col]}}

\* STCSVBuffer._sort_buffer_file: pd.read_csv raises on a missing file and
\* on one without a line; to_csv rewrites the file in place. The outcomes.
_sort_buffer_file(f, sort_order) ==
    IF sort_order \notin {"by_time", "by_id"} THEN {[file |-> f, err |-> ""]}
    ELSE IF ~f.exists THEN {[file |-> f, err |-> "IOError"]}
    ELSE IF f.lines = <<>> THEN {[file |-> f, err |-> "EmptyDataError"]}
    ELSE {[file |-> [f EXCEPT !.lines = ls], err |-> ""] :
             ls \in sort_values(f.lines, IF sort_order = "by_time" THEN 1 ELSE 3)}

NewRd(status, r, pops, time_window, sort_order) ==
    [status |-> status, rank |-> r, sort_order |-> sort_order,
     populations |-> pops, time_window |-> time_window]

\* STMemoryBuffer.spikes, consumed to its end
MemSpikes(pops, time_window, sort_order) ==
    /\ backend = "memory" /\ Ready(0) /\ Idle
    /\ out' = STMemoryBuffer_spikes(pops, time_window, sort_order)
    /\ \E end \in EndOfGenerator :
          rd' = NewRd(end, 0, pops, time_window, sort_order)
    /\ itr' = NoItr
    /\ ret' = NoRet
    /\ UNCHANGED <<config, prev, ctor, node_ids, timestamps, populations, pop_counts,
                   nspikes, files, buffer_handle, calls>>

\* STCSVBuffer.spikes, consumed to its end: flush, sort, scan. The outcomes.
STCSVBuffer_spikes(f, hd, pops, time_window, sort_order) ==
    IF hd.closed THEN {[file |-> f, out |-> <<>>, err |-> "ValueError"]}
    ELSE {IF s.err # "" THEN [file |-> s.file, out |-> <<>>, err |-> s.err]
          ELSE [file |-> s.file,
                out |-> ScanRows(s.file.lines, _create_filter(pops, time_window)),
                err |-> ""] :
             s \in _sort_buffer_file(FlushHandle(f, hd), sort_order)}

CsvSpikes(pops, time_window, sort_order) ==
    /\ backend = "csv" /\ Ready(0) /\ Idle
    /\ \E g \in STCSVBuffer_spikes(files[0], buffer_handle[0], pops, time_window,
                                   sort_order) :
          /\ files' = [files EXCEPT ![0] = g.file]
          /\ buffer_handle' =
                IF buffer_handle[0].closed THEN buffer_handle
                ELSE [buffer_handle EXCEPT ![0].buf = <<>>]
          /\ out' = g.out
          /\ \E end \in (IF g.err # "" THEN {g.err} ELSE EndOfGenerator) :
                rd' = NewRd(end, 0, pops, time_window, sort_order)
    /\ itr' = NoItr
    /\ ret' = NoRet
    /\ UNCHANGED <<config, prev, ctor, node_ids, timestamps, populations, pop_counts,
                   nspikes, calls>>

(* ------------------------ spikes: distributed ------------------------- *)
\* STMPIBuffer._all_cached_files: the ranks whose files it names
_all_cached_files == CachedRanks

\* the loop of STMPIBuffer.spikes over _sort_buffer_file. The outcomes.
RECURSIVE SortFiles(_, _, _)
SortFiles(fs, rs, sort_order) ==
    IF rs = <<>> THEN {[files |-> fs, err |-> ""]}
    ELSE UNION {IF s.err # "" THEN {[files |-> fs, err |-> s.err]}
                ELSE SortFiles([fs EXCEPT ![Head(rs)] = s.file], Tail(rs),
                               sort_order) :
                   s \in _sort_buffer_file(fs[Head(rs)], sort_order)}

\* STMPIBuffer._unsorted_itr, consumed to its end: a missing file raises
\* after the records of the files before it
RECURSIVE _unsorted_itr(_, _, _)
_unsorted_itr(fs, rs, f) ==
    IF rs = <<>> THEN [out |-> <<>>, err |-> ""]
    ELSE IF ~fs[Head(rs)].exists THEN [out |-> <<>>, err |-> "IOError"]
    ELSE LET rest == _unsorted_itr(fs, Tail(rs), f)
         IN [out |-> ScanRows(fs[Head(rs)].lines, f) \o rest.out, err |-> rest.err]

\* STMPIBuffer.spikes: the call flushes and sorts; the generator it returns
\* is _unsorted_itr (consumed here) or _sorted_itr (MergeStart, MergeStep)
MpiSpikes(r, pops, time_window, sort_order) ==
    /\ backend = "mpi" /\ Ready(r) /\ Idle
    /\ ret' = NoRet
    /\ IF buffer_handle[r].closed
       THEN /\ rd' = NewRd("ValueError", r, pops, time_window, sort_order)
            /\ out' = <<>> /\ itr' = NoItr
            /\ UNCHANGED <<files, buffer_handle>>
       ELSE LET flushed == [files EXCEPT ![r] = FlushHandle(@, buffer_handle[r])]
                f == _create_filter(pops, time_window)
            IN /\ buffer_handle' = [buffer_handle EXCEPT ![r].buf = <<>>]
               /\ IF sort_order \in {"by_time", "by_id"}
                  THEN \E s \in SortFiles(flushed, _all_cached_files, sort_order) :
                          /\ files' = s.files
                          /\ out' = <<>>
                          /\ rd' = NewRd(IF s.err # "" THEN s.err ELSE "created",
                                         r, pops, time_window, sort_order)
                          /\ itr' = [NoItr EXCEPT
                                        !.filter = f,
                                        !.sort_col = IF sort_order = "by_time"
                                                     THEN 0 ELSE 1]
                  ELSE LET u == _unsorted_itr(flushed, _all_cached_files, f)
                       IN /\ files' = flushed
                          /\ out' = u.out
                          /\ itr' = NoItr
                          /\ \E end \in (IF u.err # "" THEN {u.err}
                                         ELSE EndOfGenerator) :
                                rd' = NewRd(end, r, pops, time_window, sort_order)
    /\ UNCHANGED <<config, prev, ctor, node_ids, timestamps, populations, pop_counts,
                   nspikes, calls>>

(* ----------------------------- get_times ------------------------------ *)
\* ts[mask] of STMemoryBuffer.get_times: the timestamps, in the order of
\* insertion, of the entries of node node_id and population pop, within the
\* window if time_window is truthy (a tuple is, None is not)
RECURSIVE MaskedTimes(_, _, _, _)
MaskedTimes(i, node_id, pop, time_window) ==
    IF i > Len(timestamps) THEN <<>>
    ELSE (IF /\ node_ids[i] = node_id
             /\ populations[i] = pop
             /\ time_window.tag = "None"
                \/ (time_window.lo <= timestamps[i] /\ timestamps[i] <= time_window.hi)
          THEN <<timestamps[i]>> ELSE <<>>)
         \o MaskedTimes(i + 1, node_id, pop, time_window)

STMemoryBuffer_get_times(node_id, population, time_window) ==
    MaskedTimes(1, node_id, PyOr(population, default_population), time_window)

MemGetTimes(node_id, population, time_window) ==
    /\ backend = "memory" /\ Ready(0) /\ Idle
    /\ ret' = Returned("get_times", 0, <<node_id, population, time_window>>,
                       STMemoryBuffer_get_times(node_id, population, time_window))
    /\ ClearRead
    /\ UNCHANGED <<config, prev, ctor, node_ids, timestamps, populations, pop_counts,
                   nspikes, files, buffer_handle, calls>>

\* `t[1] == node_id` on a record (timestamp, population, node_id) of spikes():
\* a population label, a str, against a node id, an int, is never equal
LabelEqualsNode(p, node_id) == FALSE

\* [t[0] for t in records if t[1] == node_id]
RECURSIVE TimesOfNode(_, _)
TimesOfNode(records, node_id) ==
    IF records = <<>> THEN <<>>
    ELSE (IF LabelEqualsNode(Head(records)[2], node_id)
          THEN <<Head(records)[1]>> ELSE <<>>)
         \o TimesOfNode(Tail(records), node_id)

\* STCSVBuffer.get_times (STMPIBuffer inherits it): it calls
\* self.spikes(population=population, time_window=time_window), where the
\* keyword `population` falls into **kwargs, so populations stays None and
\* sort_order none; the list comprehension consumes the generator, whose
\* end (EndOfGenerator) or exception ends the call
CsvGetTimes(r, node_id, population, time_window) ==
    /\ backend # "memory" /\ Ready(r) /\ Idle
    /\ LET hd == buffer_handle[r]
           flushed == [files EXCEPT ![r] = FlushHandle(@, hd)]
           f == _create_filter(NonePops, time_window)
           g == IF hd.closed THEN [out |-> <<>>, err |-> "ValueError"]
                ELSE IF backend = "csv"
                THEN [out |-> ScanRows(flushed[r].lines, f), err |-> ""]
                ELSE _unsorted_itr(flushed, _all_cached_files, f)
       IN /\ files' = IF hd.closed THEN files ELSE flushed
          /\ buffer_handle' = IF hd.closed THEN buffer_handle
                              ELSE [buffer_handle EXCEPT ![r].buf = <<>>]
          /\ \E end \in (IF g.err # "" THEN {g.err} ELSE EndOfGenerator) :
                ret' = IF end = "done"
                       THEN Returned("get_times", r,
                                     <<node_id, population, time_window>>,
                                     TimesOfNode(g.out, node_id))
                       ELSE Raised("get_times", r,
                                   <<node_id, population, time_window>>, end)
    /\ ClearRead
    /\ UNCHANGED <<config, prev, ctor, node_ids, timestamps, populations, pop_counts,
                   nspikes, calls>>

(* ---------------------------- to_dataframe ---------------------------- *)
\* STMemoryBuffer.to_dataframe and STCSVBuffer.to_dataframe (STMPIBuffer
\* inherits it): raise NotImplementedError()
to_dataframe(pops, time_window, sort_order) == "NotImplementedError"

ToDataframe(r, pops, time_window, sort_order) ==
    /\ Ready(r) /\ Idle
    /\ ret' = Raised("to_dataframe", r, <<pops, time_window, sort_order>>,
                     to_dataframe(pops, time_window, sort_order))
    /\ ClearRead
    /\ UNCHANGED <<config, prev, ctor, node_ids, timestamps, populations, pop_counts,
                   nspikes, files, buffer_handle, calls>>

\* STMemoryBuffer.__len__: len(self.to_dataframe())
MemLen ==
    /\ backend = "memory" /\ Ready(0) /\ Idle
    /\ ret' = Raised("__len__", 0, <<NonePops, NoneWindow, "none">>,
                     to_dataframe(NonePops, NoneWindow, "none"))
    /\ ClearRead
    /\ UNCHANGED <<config, prev, ctor, node_ids, timestamps, populations, pop_counts,
                   nspikes, files, buffer_handle, calls>>

(* --------------------------- Merge Reader ----------------------------- *)
\* a heap keyed by the node id whatever the sort column
Key_node_id(row, sort_col) == row[3]

\* row[sort_col] as the heap compares it: a time, or a label as a string
Key(row, sort_col) == IF sort_col = 0 THEN row[1] ELSE StrOrd(row[2])

\* next_row on the reader of file src at line i: (row[sort_col], row, reader)
next_row(src, i, sort_col) ==
    LET rn == files[src].lines[i]
        row == <<rn[1], rn[2], rn[3]>>
    IN [v |-> Key(row, sort_col), row |-> row, src |-> src]

\* next_row returns None at the end of the file
AtEnd(src, i) == i > Len(files[src].lines)

\* Python's order of two rows [t, p, n]
RowLess(a, b) ==
    \/ a[1] < b[1]
    \/ a[1] = b[1] /\ StrOrd(a[2]) < StrOrd(b[2])
    \/ a[1] = b[1] /\ a[2] = b[2] /\ a[3] < b[3]

\* Python's order of two heap entries, as far as key and row decide it
EntryLess(a, b) == a.v < b.v \/ (a.v = b.v /\ RowLess(a.row, b.row))

\* key and row are equal: heapq goes on to compare the csv.reader objects,
\* which raises TypeError (Python 3) or orders them by address (Python 2)
EntryTie(a, b) == a.src # b.src /\ a.v = b.v /\ a.row = b.row

TieOutcomes(entries) ==
    IF \E a, b \in entries : EntryTie(a, b) THEN {"TypeError", ""} ELSE {""}

\* the heap when the filling of it fails over a None that next_row returned
\* for an empty file: h the rows in it, nones the files whose None is in it.
\* Python 3: heappush appends the item and raises TypeError in the first
\* comparison that meets a None (or two equal rows, over their readers), at
\* the second push at the earliest; a single None is popped and fails to
\* unpack. Python 2 orders None below every tuple: all is pushed, and the
\* first heappop returns a None that fails to unpack.
HeapAtFailure(fns, sort_col) ==
    LET n == Len(fns)
        none(i) == AtEnd(fns[i], 1)
        row(i) == next_row(fns[i], 1, sort_col)
        raises(i) == \/ none(1) \/ none(i)
                     \/ \E j \in 1 .. (i - 1) : ~none(j) /\ EntryTie(row(i), row(j))
        k == IF \E i \in 2 .. n : raises(i)
             THEN CHOOSE i \in 2 .. n : raises(i) /\ \A j \in 2 .. (i - 1) : ~raises(j)
             ELSE n
        empties == {fns[i] : i \in {j \in 1 .. n : none(j)}}
        py3 == IF n = 1 THEN [h |-> {}, nones |-> {}]
               ELSE [h |-> {row(i) : i \in {j \in 1 .. k : ~none(j)}},
                     nones |-> {fns[i] : i \in {j \in 1 .. k : none(j)}}]
        py2 == {[h |-> {row(i) : i \in {j \in 1 .. n : ~none(j)}},
                 nones |-> empties \ {x}] : x \in empties}
    IN {py3} \cup py2

\* the first resumption of _sorted_itr: one reader per file, the heap filled.
\* An open of a missing file raises; a None among the readers raises
\* TypeError when it is compared or unpacked, before the first yield
MergeStart ==
    /\ rd.status = "created"
    /\ LET fns == _all_cached_files
           live == {fns[i] : i \in DOMAIN fns}
           missing == {i \in DOMAIN fns : ~files[fns[i]].exists}
       IN IF missing # {}
          THEN LET m == CHOOSE i \in missing : \A j \in missing : i <= j
               IN /\ rd' = [rd EXCEPT !.status = "IOError"]
                  /\ itr' = [itr EXCEPT !.opened = {fns[i] : i \in 1 .. (m - 1)}]
          ELSE IF \E src \in live : AtEnd(src, 1)
          THEN /\ rd' = [rd EXCEPT !.status = "TypeError"]
               /\ \E x \in HeapAtFailure(fns, itr.sort_col) :
                     itr' = [itr EXCEPT !.opened = live, !.h = x.h,
                                        !.nones = x.nones]
          ELSE LET entries == {next_row(src, 1, itr.sort_col) : src \in live}
               IN \E exc \in TieOutcomes(entries) :
                     /\ rd' = [rd EXCEPT !.status =
                                  IF exc # "" THEN exc ELSE "running"]
                     /\ itr' = [itr EXCEPT
                                   !.opened = live,
                                   !.h = entries,
                                   !.pos = [r \in Ranks |->
                                               IF r \in live THEN 2 ELSE 0]]
    /\ UNCHANGED <<config, prev, ctor, node_ids, timestamps, populations, pop_counts,
                   nspikes, files, buffer_handle, out, ret, calls>>

\* one turn of the while loop: pop the least entry, advance its reader, push
\* what it read, and yield the popped row if filter(row[1], row[2]) holds
MergeStep ==
    /\ rd.status = "running"
    /\ itr.h # {}
    /\ \E e \in itr.h :
          /\ \A o \in itr.h : ~EntryLess(o, e)
          /\ LET rest == itr.h \ {e}
                 i == itr.pos[e.src]
                 more == ~AtEnd(e.src, i)
                 pushed == IF more
                           THEN rest \cup {next_row(e.src, i, itr.sort_col)}
                           ELSE rest
                 emit == ApplyFilter(itr.filter, e.row[2], e.row[3])
             IN \E exc \in TieOutcomes(pushed) :
                   IF exc # ""
                   THEN /\ rd' = [rd EXCEPT !.status = exc]
                        /\ itr' = [itr EXCEPT !.h = pushed, !.yielded = FALSE]
                        /\ out' = out
                   ELSE /\ rd' = rd
                        /\ itr' = [itr EXCEPT
                                      !.h = pushed,
                                      !.pos[e.src] = IF more THEN i + 1 ELSE i,
                                      !.yielded = emit]
                        /\ out' = IF emit THEN Append(out, e.row) ELSE out
    /\ UNCHANGED <<config, prev, ctor, node_ids, timestamps, populations, pop_counts,
                   nspikes, files, buffer_handle, ret, calls>>

\* `while h` finds the heap empty: the generator is exhausted
MergeEnd ==
    /\ rd.status = "running"
    /\ itr.h = {}
    /\ rd' = [rd EXCEPT !.status = "done"]
    /\ itr' = [itr EXCEPT !.yielded = FALSE]
    /\ UNCHANGED <<config, prev, ctor, node_ids, timestamps, populations, pop_counts,
                   nspikes, files, buffer_handle, out, ret, calls>>

\* the consumer drops the generator before its end: before the first
\* resumption, or at a yield
MergeStop ==
    /\ rd.status = "created" \/ (rd.status = "running" /\ itr.yielded)
    /\ rd' = [rd EXCEPT !.status = "stopped"]
    /\ UNCHANGED <<config, prev, ctor, node_ids, timestamps, populations, pop_counts,
                   nspikes, files, buffer_handle, out, itr, ret, calls>>

\* the caller takes the outcome of a finished call and goes on
Consume ==
    /\ \/ rd.status \notin {"none", "created", "running"}
       \/ ret.op # "none"
    /\ ClearRead
    /\ ret' = NoRet
    /\ UNCHANGED <<config, prev, ctor, node_ids, timestamps, populations, pop_counts,
                   nspikes, files, buffer_handle, calls>>

\* the caller takes the outcome of a finished call and keeps, of a by_time
\* read it has consumed to the end, the arguments and the records
ConsumeRead ==
    /\ \/ rd.status \notin {"none", "created", "running"}
       \/ ret.op # "none"
    /\ prev' = IF rd.status \in EndOfGenerator /\ rd.sort_order = "by_time"
               THEN [valid |-> TRUE, rd |-> rd, out |-> out, calls |-> calls,
                     buffer_handle |-> buffer_handle]
               ELSE NoPrev
    /\ ClearRead
    /\ ret' = NoRet
    /\ UNCHANGED <<config, ctor, node_ids, timestamps, populations, pop_counts,
                   nspikes, files, buffer_handle, calls>>

(* ---------------------------- construction ---------------------------- *)
\* the rest of STMemoryBuffer.__init__ and STCSVBuffer.__init__
InitialCounts == (default_population :> 0)

\* the buffers after their construction in an existing cache directory
Init ==
    /\ backend \in {"memory", "csv", "mpi"}
    /\ default_population \in {PyOr(d, pop_na) : d \in DefaultArgs}
    /\ mpi4py \in (IF backend = "mpi" THEN BOOLEAN ELSE {FALSE})
    /\ cache_dir_exists = TRUE
    /\ pc = [r \in Ranks |-> IF r \in Inst(backend) THEN "ready" ELSE "absent"]
    /\ init_error = [r \in Ranks |-> ""]
    /\ arrived = IF backend = "mpi" THEN Ranks ELSE {}
    /\ mkdirs_calls = {}
    /\ node_ids = <<>> /\ timestamps = <<>> /\ populations = <<>>
    /\ pop_counts = [r \in Ranks |-> IF r \in Inst(backend)
                                     THEN InitialCounts ELSE EmptyDict]
    /\ nspikes = [r \in Ranks |-> 0]
    /\ files = [r \in Ranks |->
                   IF backend # "memory" /\ r \in Inst(backend)
                   THEN [exists |-> TRUE, lines |-> <<>>] ELSE NoFile]
    /\ buffer_handle = [r \in Ranks |->
                           IF backend # "memory" /\ r \in Inst(backend)
                           THEN [closed |-> FALSE, buf |-> <<>>] ELSE NoHandle]
    /\ rd = NoRd /\ out = <<>> /\ itr = NoItr /\ ret = NoRet
    /\ calls = EmptyBag
    /\ prev = NoPrev

\* STMemoryBuffer.__init__
MemInit ==
    /\ backend = "memory" /\ pc[0] = "init"
    /\ pc' = [pc EXCEPT ![0] = "ready"]
    /\ pop_counts' = [pop_counts EXCEPT ![0] = InitialCounts]
    /\ UNCHANGED <<config, prev, cache_dir_exists, init_error, arrived, mkdirs_calls,
                   node_ids, timestamps, populations, nspikes, files,
                   buffer_handle, rd, out, itr, ret, calls>>

\* whether _cache_fname of instance r goes on to call os.mkdirs, a function
\* the os module does not have: the call raises AttributeError
CallsMkdirs(r) ==
    IF backend = "mpi" THEN r = 0 /\ ~cache_dir_exists ELSE ~cache_dir_exists

\* STCSVBuffer._cache_fname and STMPIBuffer._cache_fname up to barrier()
CacheFname(r) ==
    /\ backend # "memory" /\ pc[r] = "init"
    /\ IF CallsMkdirs(r)
       THEN /\ mkdirs_calls' = mkdirs_calls \cup {r}
            /\ pc' = [pc EXCEPT ![r] = "failed"]
            /\ init_error' = [init_error EXCEPT ![r] = "AttributeError"]
       ELSE /\ pc' = [pc EXCEPT ![r] = IF backend = "mpi" THEN "barrier" ELSE "open"]
            /\ UNCHANGED <<mkdirs_calls, init_error>>
    /\ UNCHANGED <<config, prev, cache_dir_exists, arrived, node_ids, timestamps,
                   populations, pop_counts, nspikes, files, buffer_handle, rd, out,
                   itr, ret, calls>>

\* barrier(): comm.Barrier, or `lambda: None` without mpi4py
Barrier(r) ==
    /\ pc[r] = "barrier"
    /\ arrived' = arrived \cup {r}
    /\ pc' = [pc EXCEPT ![r] = IF mpi4py THEN "waiting" ELSE "open"]
    /\ UNCHANGED <<config, prev, cache_dir_exists, init_error, mkdirs_calls, node_ids,
                   timestamps, populations, pop_counts, nspikes, files,
                   buffer_handle, rd, out, itr, ret, calls>>

\* comm.Barrier returns once every rank has called it
BarrierReturn(r) ==
    /\ pc[r] = "waiting"
    /\ arrived = Ranks
    /\ pc' = [pc EXCEPT ![r] = "open"]
    /\ UNCHANGED <<config, prev, cache_dir_exists, init_error, arrived, mkdirs_calls,
                   node_ids, timestamps, populations, pop_counts, nspikes, files,
                   buffer_handle, rd, out, itr, ret, calls>>

\* open(self._buffer_filename, 'w') and the rest of STCSVBuffer.__init__;
\* the open raises IOError when the directory is not there
OpenFile(r) ==
    /\ pc[r] = "open"
    /\ IF cache_dir_exists
       THEN /\ files' = [files EXCEPT ![r] = [exists |-> TRUE, lines |-> <<>>]]
            /\ buffer_handle' = [buffer_handle EXCEPT
                                    ![r] = [closed |-> FALSE, buf |-> <<>>]]
            /\ pop_counts' = [pop_counts EXCEPT ![r] = InitialCounts]
            /\ nspikes' = [nspikes EXCEPT ![r] = 0]
            /\ pc' = [pc EXCEPT ![r] = "ready"]
            /\ UNCHANGED init_error
       ELSE /\ pc' = [pc EXCEPT ![r] = "failed"]
            /\ init_error' = [init_error EXCEPT ![r] = "IOError"]
            /\ UNCHANGED <<files, buffer_handle, pop_counts, nspikes>>
    /\ UNCHANGED <<config, prev, cache_dir_exists, arrived, mkdirs_calls, node_ids,
                   timestamps, populations, rd, out, itr, ret, calls>>

Next ==
    \/ \E r \in Ranks, n \in Nodes, t \in Times, p \in PopArgs : AddSpike(r, n, t, p)
    \/ \E r \in Ranks, ids \in NodeIdsArgs, tss \in TimestampsArgs, p \in PopArgs :
          AddSpikes(r, ids, tss, p)
    \/ \E r \in Ranks : Flush(r)
    \/ \E r \in Ranks : Close(r)
    \/ \E r \in Ranks : TimeRange(r)
    \/ \E r \in Ranks, p \in QueryArgs : NSpikes(r, p)
    \/ \E r \in Ranks : Populations(r)
    \/ \E pops \in PopulationsArgs, tw \in TimeWindowArgs, so \in SortOrders :
          MemSpikes(pops, tw, so)
    \/ \E pops \in PopulationsArgs, tw \in TimeWindowArgs, so \in SortOrders :
          CsvSpikes(pops, tw, so)
    \/ \E r \in Ranks, pops \in PopulationsArgs, tw \in TimeWindowArgs,
          so \in SortOrders : MpiSpikes(r, pops, tw, so)
    \/ MergeStart
    \/ MergeStep
    \/ MergeEnd
    \/ MergeStop
    \/ Consume

Spec == Init /\ [][Next]_vars

(* ------------------ the buffers from their construction ---------------- *)
InitCtor ==
    /\ backend \in {"memory", "csv", "mpi"}
    /\ default_population \in {PyOr(d, pop_na) : d \in DefaultArgs}
    /\ mpi4py \in (IF backend = "mpi" THEN BOOLEAN ELSE {FALSE})
    /\ cache_dir_exists \in BOOLEAN
    /\ pc = [r \in Ranks |-> IF r \in Inst(backend) THEN "init" ELSE "absent"]
    /\ init_error = [r \in Ranks |-> ""]
    /\ arrived = {}
    /\ mkdirs_calls = {}
    /\ node_ids = <<>> /\ timestamps = <<>> /\ populations = <<>>
    /\ pop_counts = [r \in Ranks |-> EmptyDict]
    /\ nspikes = [r \in Ranks |-> 0]
    /\ files = [r \in Ranks |-> NoFile]
    /\ buffer_handle = [r \in Ranks |-> NoHandle]
    /\ rd = NoRd /\ out = <<>> /\ itr = NoItr /\ ret = NoRet
    /\ calls = EmptyBag
    /\ prev = NoPrev

NextCtor ==
    \/ MemInit
    \/ \E r \in Ranks : CacheFname(r)
    \/ \E r \in Ranks : Barrier(r)
    \/ \E r \in Ranks : BarrierReturn(r)
    \/ \E r \in Ranks : OpenFile(r)
    \/ \E r \in Ranks, n \in Nodes, t \in Times, p \in PopArgs : AddSpike(r, n, t, p)
    \/ \E r \in Ranks : Flush(r)
    \/ \E r \in Ranks : Close(r)
    \/ Consume

SpecCtor == InitCtor /\ [][NextCtor]_vars

\* the steps of the construction of instance r
Construct(r) ==
    \/ CacheFname(r)
    \/ Barrier(r)
    \/ BarrierReturn(r)
    \/ OpenFile(r)

\* every worker is a process of its own that runs whenever it can: a step of
\* a constructor that stays possible is taken
SpecCtorFair ==
    /\ InitCtor /\ [][NextCtor]_vars
    /\ WF_vars(MemInit)
    /\ \A r \in Ranks : WF_vars(Construct(r))

(* ---------------- the Merge Reader on sources sorted by time ----------- *)
Records == Times \X {pop_na, "A"} \X Nodes

SortedByTime(lines) ==
    \A i \in 1 .. (Len(lines) - 1) : lines[i][1] <= lines[i + 1][1]

Sources ==
    {s \in UNION {[1 .. n -> Records] : n \in 0 .. MaxLen} : SortedByTime(s)}

RECURSIVE CallsOf(_, _)
CallsOf(r, lines) ==
    IF lines = <<>> THEN EmptyBag
    ELSE Call(r, Head(lines)[3], Head(lines)[1],
              IF Head(lines)[2] = pop_na THEN None ELSE Head(lines)[2])
         (+) CallsOf(r, Tail(lines))

RECURSIVE CountsOf(_, _)
CountsOf(d, lines) ==
    IF lines = <<>> THEN d ELSE CountsOf(DictInc(d, Head(lines)[2]), Tail(lines))

RECURSIVE SumBags(_, _)
SumBags(f, rs) ==
    IF rs = {} THEN EmptyBag
    ELSE LET r == CHOOSE x \in rs : TRUE IN f[r] (+) SumBags(f, rs \ {r})

\* every worker has written and flushed a file sorted by time, and
\* _sorted_itr(filter, 0) has been called with the filter of no constraint
InitMerge ==
    /\ backend = "mpi"
    /\ default_population = pop_na
    /\ mpi4py = TRUE
    /\ cache_dir_exists = TRUE
    /\ pc = [r \in Ranks |-> "ready"]
    /\ init_error = [r \in Ranks |-> ""]
    /\ arrived = Ranks
    /\ mkdirs_calls = {}
    /\ node_ids = <<>> /\ timestamps = <<>> /\ populations = <<>>
    /\ \E src \in [Ranks -> Sources] :
          /\ files = [r \in Ranks |-> [exists |-> TRUE, lines |-> src[r]]]
          /\ pop_counts = [r \in Ranks |-> CountsOf(InitialCounts, src[r])]
          /\ nspikes = [r \in Ranks |-> Len(src[r])]
          /\ calls = SumBags([r \in Ranks |-> CallsOf(r, src[r])], Ranks)
    /\ buffer_handle = [r \in Ranks |-> [closed |-> FALSE, buf |-> <<>>]]
    /\ rd = NewRd("created", 0, NonePops, NoneWindow, "by_time")
    /\ out = <<>>
    /\ itr = NoItr
    /\ ret = NoRet
    /\ prev = NoPrev

NextMerge ==
    \/ MergeStart
    \/ MergeStep
    \/ MergeEnd
    \/ MergeStop

SpecMerge == InitMerge /\ [][NextMerge]_vars

(* --------------------- the Filter Builder on its own ------------------ *)
FilterTimes == 0 .. (MaxTime + 1)

AllPopulationsArgs ==
    {NonePops} \cup {ScalarPops(l) : l \in Labels}
    \cup {ListPops(ls) : ls \in SUBSET Labels}

AllTimeWindowArgs ==
    {NoneWindow} \cup {Window(lo, hi) : lo \in FilterTimes, hi \in FilterTimes}

InitFilter ==
    /\ backend = "memory"
    /\ default_population = pop_na
    /\ mpi4py = FALSE
    /\ cache_dir_exists = TRUE
    /\ pc = [r \in Ranks |-> IF r = 0 THEN "ready" ELSE "absent"]
    /\ init_error = [r \in Ranks |-> ""]
    /\ arrived = {}
    /\ mkdirs_calls = {}
    /\ node_ids = <<>> /\ timestamps = <<>> /\ populations = <<>>
    /\ pop_counts = [r \in Ranks |-> IF r = 0 THEN InitialCounts ELSE EmptyDict]
    /\ nspikes = [r \in Ranks |-> 0]
    /\ files = [r \in Ranks |-> NoFile]
    /\ buffer_handle = [r \in Ranks |-> NoHandle]
    /\ rd = NoRd /\ out = <<>> /\ itr = NoItr /\ ret = NoRet
    /\ calls = EmptyBag
    /\ prev = NoPrev

\* filter = _create_filter(populations, time_window)
CreateFilter(pops, time_window) ==
    /\ rd.status = "none"
    /\ rd' = NewRd("filter", 0, pops, time_window, "none")
    /\ itr' = [NoItr EXCEPT !.filter = _create_filter(pops, time_window)]
    /\ UNCHANGED <<config, prev, ctor, node_ids, timestamps, populations, pop_counts,
                   nspikes, files, buffer_handle, out, ret, calls>>

\* filter(p=p, t=t); ret.val is <<t, 1>> when it returns True, else <<t, 0>>
CallFilter(p, t) ==
    /\ rd.status = "filter"
    /\ ret' = Returned("filter", 0, p,
                       <<t, IF ApplyFilter(itr.filter, p, t) THEN 1 ELSE 0>>)
    /\ UNCHANGED <<config, prev, ctor, node_ids, timestamps, populations, pop_counts,
                   nspikes, files, buffer_handle, rd, out, itr, calls>>

NextFilter ==
    \/ \E pops \in AllPopulationsArgs, tw \in AllTimeWindowArgs : CreateFilter(pops, tw)
    \/ \E p \in Labels, t \in FilterTimes : CallFilter(p, t)

SpecFilter == InitFilter /\ [][NextFilter]_vars

(* ------------- the buffers with the aggregate reads of all ------------ *)
NextGather ==
    \/ \E r \in Ranks, n \in Nodes, t \in Times, p \in PopArgs : AddSpike(r, n, t, p)
    \/ \E r \in Ranks, ids \in NodeIdsArgs, tss \in TimestampsArgs, p \in PopArgs :
          AddSpikes(r, ids, tss, p)
    \/ \E r \in Ranks : Flush(r)
    \/ \E r \in Ranks, p \in QueryArgs : NSpikes(r, p)
    \/ \E r \in Ranks : Populations(r)
    \/ \E r \in Ranks, p \in QueryArgs : MpiNSpikes(r, p)
    \/ \E r \in Ranks : MpiPopulations(r)
    \/ \E pops \in PopulationsArgs, tw \in TimeWindowArgs : MemSpikes(pops, tw, "none")
    \/ \E pops \in PopulationsArgs, tw \in TimeWindowArgs : CsvSpikes(pops, tw, "none")
    \/ \E r \in Ranks, pops \in PopulationsArgs, tw \in TimeWindowArgs :
          MpiSpikes(r, pops, tw, "none")
    \/ Consume

SpecGather == Init /\ [][NextGather]_vars

(* --------------- the buffers with get_times and to_dataframe ---------- *)
NextTimes ==
    \/ \E r \in Ranks, n \in Nodes, t \in Times, p \in PopArgs : AddSpike(r, n, t, p)
    \/ \E r \in Ranks, ids \in NodeIdsArgs, tss \in TimestampsArgs, p \in PopArgs :
          AddSpikes(r, ids, tss, p)
    \/ \E r \in Ranks : Flush(r)
    \/ \E n \in Nodes, p \in PopArgs, tw \in TimeWindowArgs : MemGetTimes(n, p, tw)
    \/ \E r \in Ranks, n \in Nodes, p \in PopArgs, tw \in TimeWindowArgs :
          CsvGetTimes(r, n, p, tw)
    \/ \E r \in Ranks, pops \in PopulationsArgs, tw \in TimeWindowArgs,
          so \in SortOrders : ToDataframe(r, pops, tw, so)
    \/ MemLen
    \/ Consume

SpecTimes == Init /\ [][NextTimes]_vars

(* ------------------- a by_time read made a second time ---------------- *)
NextReread ==
    \/ \E r \in Ranks, n \in Nodes, t \in Times, p \in PopArgs : AddSpike(r, n, t, p)
    \/ \E r \in Ranks, ids \in NodeIdsArgs, tss \in TimestampsArgs, p \in PopArgs :
          AddSpikes(r, ids, tss, p)
    \/ \E r \in Ranks : Flush(r)
    \/ \E pops \in PopulationsArgs, tw \in TimeWindowArgs : MemSpikes(pops, tw, "by_time")
    \/ \E pops \in PopulationsArgs, tw \in TimeWindowArgs : CsvSpikes(pops, tw, "by_time")
    \/ \E r \in Ranks, pops \in PopulationsArgs, tw \in TimeWindowArgs :
          MpiSpikes(r, pops, tw, "by_time")
    \/ MergeStart
    \/ MergeStep
    \/ MergeEnd
    \/ ConsumeRead

SpecReread == Init /\ [][NextReread]_vars

(* ============================== claims ================================ *)
\* the bag of the elements of a sequence
SeqBag(s) ==
    [x \in {s[i] : i \in DOMAIN s} |-> Cardinality({i \in DOMAIN s : s[i] = x})]

\* the record an add_spike call is to leave: an omitted population stands
\* for the default population of the buffer
Recorded(c) == <<c[3], PyOr(c[4], default_population), c[2]>>

\* the bag of the records inserted
InsertedBag ==
    [x \in {Recorded(c) : c \in DOMAIN calls} |->
        SumOver(calls, {c \in DOMAIN calls : Recorded(c) = x})]

\* the number of add_spike calls made under population q
CallsUnder(q) ==
    SumOver(calls, {c \in DOMAIN calls : PyOr(c[4], default_population) = q})

\* the times of the add_spike calls, in some order
RECURSIVE BagTimes(_)
BagTimes(b) ==
    IF DOMAIN b = {} THEN <<>>
    ELSE LET c == CHOOSE x \in DOMAIN b : TRUE
         IN <<c[3]>> \o BagTimes(IF b[c] = 1
                                  THEN [x \in DOMAIN b \ {c} |-> b[x]]
                                  ELSE [b EXCEPT ![c] = @ - 1])

AllFlushedAndOpen ==
    \A r \in Inst(backend) :
        buffer_handle[r].buf = <<>> /\ (backend # "memory" => ~buffer_handle[r].closed)

NoFilters == rd.populations.tag = "None" /\ rd.time_window.tag = "None"

\* the predicate the Filter Builder is to build
Expected(pops, time_window, p, t) ==
    /\ pops.tag = "None" \/ p \in pops.v
    /\ time_window.tag = "None" \/ (time_window.lo <= t /\ t <= time_window.hi)

\* the lines of the files _all_cached_files names, in rank order
RECURSIVE LinesOf(_)
LinesOf(rs) ==
    IF rs = <<>> THEN <<>> ELSE files[Head(rs)].lines \o LinesOf(Tail(rs))

\* C1: after add_spike/add_spikes calls and a flush, the records that
\* spikes(sort_order=None) without filters yields, consumed to the end, are
\* as a multiset exactly the records inserted, an omitted population being
\* recorded as the default population of the buffer.
C1_RoundTrip ==
    (/\ rd.status \in EndOfGenerator
     /\ rd.sort_order = "none"
     /\ NoFilters
     /\ AllFlushedAndOpen)
    => SeqBag(out) = InsertedBag

\* C2: n_spikes(p) is the number of add_spike calls made under p, a call
\* and a query without population standing for the default population.
C2_NSpikesCountsCalls ==
    ret.op = "n_spikes"
    => ret.val = <<CallsUnder(PyOr(ret.arg, default_population))>>

\* C3: the records spikes(sort_order=ByTime) yields have non-decreasing
\* timestamps, pair by adjacent pair, for every backend.
C3_SortedByTime ==
    rd.sort_order = "by_time"
    => \A i \in 1 .. (Len(out) - 1) : out[i][1] <= out[i + 1][1]

\* C3 witness: a merge of two files, the later record in the file of rank 0,
\* has yielded both records.
C3_Witness ==
    /\ backend = "mpi" /\ mpi4py
    /\ rd.status = "done" /\ rd.sort_order = "by_time"
    /\ Len(out) = 2
    /\ Len(files[0].lines) = 1 /\ Len(files[1].lines) = 1
    /\ files[0].lines[1][1] > files[1].lines[1][1]

\* C4: the records spikes(sort_order=ById) yields have non-decreasing node
\* ids, pair by adjacent pair, for every backend.
C4_SortedById ==
    rd.sort_order = "by_id"
    => \A i \in 1 .. (Len(out) - 1) : out[i][3] <= out[i + 1][3]

\* C5: on sources sorted by time, of any length, the Merge Reader without
\* filter runs to completion, its timestamps are those of the sorted
\* concatenation of the sources and its records their multiset union.
C5_MergeEquivalence ==
    (backend = "mpi" /\ rd.sort_order = "by_time" /\ NoFilters)
    => /\ rd.status \notin {"TypeError", "IOError"}
       /\ rd.status = "done"
          => LET all == LinesOf(_all_cached_files)
                 times == [i \in DOMAIN all |-> all[i][1]]
                 idx == argsort(times)
             IN /\ [i \in DOMAIN out |-> out[i][1]]
                   = [i \in DOMAIN all |-> times[idx[i]]]
                /\ SeqBag(out) = SeqBag(all)

\* C6: the predicate _create_filter builds holds of (p, t) exactly when the
\* populations are absent or hold p, and the time window is absent or
\* lo <= t <= hi.
C6_FilterCorrect ==
    ret.op = "filter"
    => ((ret.val[2] = 1)
        <=> Expected(rd.populations, rd.time_window, ret.arg, ret.val[1]))

\* C6 witness: a filter of both constraints has accepted a record at the
\* upper end of its window.
C6_Witness ==
    /\ ret.op = "filter"
    /\ itr.filter.fn = "_spikes_filter1"
    /\ rd.time_window.lo < rd.time_window.hi
    /\ ret.val = <<rd.time_window.hi, 1>>

\* C7: the ordered retrieval of the distributed buffer emits a popped record
\* exactly when the predicate holds of its population and timestamp, so it
\* yields the multiset the unsorted retrieval yields for the same arguments.
C7_SortedFiltersAsUnsorted ==
    (backend = "mpi" /\ rd.status = "done" /\ rd.sort_order \in {"by_time", "by_id"})
    => SeqBag(out)
       = SeqBag(_unsorted_itr(files, _all_cached_files,
                              _create_filter(rd.populations, rd.time_window)).out)

\* C8: a close() after a close() raises nothing and leaves the handle closed
\* and the file absent, and a spikes() on a closed buffer fails without
\* yielding a record.
C8_CloseIdempotent ==
    backend # "memory"
    => /\ ret.op = "close"
          => /\ ret.status = "ok"
             /\ buffer_handle[ret.rank].closed
             /\ ~files[ret.rank].exists
       /\ \A r \in Ranks :
             (Ready(r) /\ buffer_handle[r].closed) => ~files[r].exists
       /\ (rd.status # "none" /\ buffer_handle[rd.rank].closed)
          => (rd.status = "ValueError" /\ out = <<>>)

\* C8 witness: close() has returned on a buffer that was closed before.
C8_Witness == ret.op = "close" /\ ret.arg = "closed" /\ ret.status = "ok"

\* C9: time_range() fails with EmptyBufferError on a buffer without
\* add_spike calls, and returns (min, max) of the timestamps otherwise.
C9_TimeRange ==
    ret.op = "time_range"
    => IF calls = EmptyBag THEN ret.status = "EmptyBufferError"
       ELSE /\ ret.status = "ok"
            /\ ret.val = <<SeqMin(BagTimes(calls)), SeqMax(BagTimes(calls))>>

\* C10: of the workers constructing distributed buffers only rank 0 tries to
\* create the cache directory, every worker calls the barrier before it
\* opens its file, and no worker opens its file while the directory is
\* missing.
C10_DirectoryBeforeOpen ==
    backend = "mpi"
    => /\ mkdirs_calls \subseteq {0}
       /\ \A r \in Ranks :
             (pc[r] \in {"open", "ready"} \/ init_error[r] = "IOError")
             => r \in arrived
       /\ \A r \in Ranks : init_error[r] # "IOError"

\* C11: once the merge has ended, by exhaustion, by the consumer stopping
\* early or by an error, none of the handles it opened is still open.
C11_HandlesReleased ==
    (backend = "mpi" /\ rd.status \notin {"none", "created", "running"})
    => itr.opened = {}

\* C12: a step that changes the cache file of rank q is a step of worker q
\* on its own buffer: a write through its handle, or a call of its own that
\* has just returned; no call of another worker rewrites the file.
C12_OwnFileOnly ==
    [][backend = "mpi"
       => \A q \in Ranks :
             files'[q] # files[q]
             => \/ buffer_handle'[q] # buffer_handle[q]
                \/ rd'.status # "none" /\ rd'.rank = q
                \/ ret'.op # "none" /\ ret'.rank = q]_vars

\* the latest read repeats the read consumed before it: the same buffer, the
\* same arguments, and nothing added or flushed in between
SameReadAgain ==
    /\ prev.valid
    /\ rd.status \in EndOfGenerator
    /\ rd.sort_order = "by_time"
    /\ rd.rank = prev.rd.rank
    /\ rd.populations = prev.rd.populations
    /\ rd.time_window = prev.rd.time_window
    /\ calls = prev.calls
    /\ buffer_handle = prev.buffer_handle

\* C13: a by_time read consumed to its end, made again with the same filters
\* on a buffer nothing was written to in between, yields the same records in
\* the same order, for every backend.
C13_RereadIdentical == SameReadAgain => out = prev.out

\* the number of add_spike calls that returned on the buffer of worker r
Appended(r) == SumOver(calls, {c \in DOMAIN calls : c[1] = r})

\* C14: in every state of a constructed buffer the values of its
\* population-count map add up to the number of records appended to it.
C14_CountsSumToAppended ==
    \A r \in Inst(backend) : Ready(r) => DictSum(pop_counts[r]) = Appended(r)

\* the lines of population q in the cache files of all the workers
LinesUnder(q) ==
    {<<r, i>> \in Ranks \X (1 .. MaxSpikes) :
        i <= Len(files[r].lines) /\ files[r].lines[i][2] = q}

AllFlushed == \A r \in Ranks : buffer_handle[r].buf = <<>>

\* C15: once every worker has flushed, n_spikes(p) of a distributed buffer
\* built for NWorkers workers returns the number of the records of
\* population p in the files of all the ranks 0 .. NWorkers - 1, and
\* populations their labels, on every call.
C15_GatherOverAllRanks ==
    (backend = "mpi" /\ AllFlushed)
    => /\ (ret.op = "n_spikes" /\ ret.arg \in Labels)
          => /\ ret.status = "ok"
             /\ ret.val = <<Cardinality(LinesUnder(ret.arg))>>
       /\ ret.op = "populations"
          => /\ ret.status = "ok"
             /\ ret.val = <<{q \in Labels : LinesUnder(q) # {}}>>

\* the timestamps get_times(node_id, population, time_window) is to return,
\* as a bag: those of the add_spike calls for that node under that
\* population, within the window
ExpectedTimes(node_id, population, time_window) ==
    LET hit == {c \in DOMAIN calls :
                   /\ c[2] = node_id
                   /\ PyOr(c[4], default_population)
                      = PyOr(population, default_population)
                   /\ time_window.tag = "None"
                      \/ (time_window.lo <= c[3] /\ c[3] <= time_window.hi)}
    IN [t \in {c[3] : c \in hit} |-> SumOver(calls, {c \in hit : c[3] = t})]

\* C16: get_times(node_id, population, time_window) returns, for every
\* backend, exactly the timestamps recorded for that node under that
\* population (the default one if omitted) and within the window, once the
\* records of all the workers are flushed.
C16_GetTimes ==
    (ret.op = "get_times" /\ AllFlushed)
    => /\ ret.status = "ok"
       /\ SeqBag(ret.val) = ExpectedTimes(ret.arg[1], ret.arg[2], ret.arg[3])

\* C17: the construction of a file buffer does not fail, whether or not its
\* cache directory was there before, and the buffer it leaves is in an
\* existing directory.
C17_CtorCreatesDirectory ==
    backend = "csv"
    => /\ pc[0] # "failed" /\ init_error[0] = ""
       /\ Ready(0) => cache_dir_exists

\* the records the buffer holds: the parallel lists of the memory buffer,
\* the lines written by the file buffers
StoredRecords ==
    IF backend = "memory"
    THEN [i \in 1 .. Len(timestamps) |-> <<timestamps[i], populations[i], node_ids[i]>>]
    ELSE LinesOf([i \in 1 .. NWorkers |-> i - 1])

\* the records among them that spikes() is to yield under the filters
RECURSIVE Matching(_, _, _)
Matching(records, pops, time_window) ==
    IF records = <<>> THEN <<>>
    ELSE (IF Expected(pops, time_window, Head(records)[2], Head(records)[1])
          THEN <<Head(records)>> ELSE <<>>)
         \o Matching(Tail(records), pops, time_window)

\* C18: to_dataframe (and len(), which calls it) returns, for every backend,
\* a table of exactly the records spikes() yields under the same filters;
\* it does not end in NotImplementedError.
C18_ToDataframe ==
    (ret.op \in {"to_dataframe", "__len__"} /\ AllFlushed)
    => /\ ret.status = "ok"
       /\ SeqBag(ret.val) = SeqBag(Matching(StoredRecords, ret.arg[1], ret.arg[2]))

\* the entries of the heap that stand for source src
EntriesOf(src) == {e \in itr.h : e.src = src}

\* C19: from the filling of the heap on, the heap holds no None; for every
\* source it holds one entry, the first of the lines not yet emitted and the
\* least of them by the key, if there is such a line, and none otherwise;
\* and the merge has stopped only with the heap empty.
C19_HeapInvariant ==
    (backend = "mpi" /\ rd.status \in {"running", "done", "TypeError"})
    => /\ itr.nones = {}
       /\ \A src \in itr.opened :
             LET lines == files[src].lines
                 i == itr.pos[src] - 1
             IN IF EntriesOf(src) = {}
                THEN itr.pos[src] > Len(lines)
                ELSE /\ Cardinality(EntriesOf(src)) = 1
                     /\ i \in 1 .. Len(lines)
                     /\ \A e \in EntriesOf(src) :
                           /\ e.row = lines[i]
                           /\ e.v = lines[i][itr.sort_col + 1]
                           /\ \A j \in i .. Len(lines) : e.v <= lines[j][itr.sort_col + 1]
       /\ rd.status \in {"done", "TypeError"} => itr.h = {}

\* C20: when the workers construct STMPIBuffers and each runs whenever it
\* can, there comes a state where every worker has finished its constructor
\* with its file open, and a worker waiting in the barrier leaves it.
C20_EveryWorkerConstructs ==
    (backend = "mpi")
    => /\ <>(\A r \in Ranks : pc[r] = "ready" /\ init_error[r] = "")
       /\ \A r \in Ranks : (pc[r] = "waiting") ~> (pc[r] # "waiting")

====
